---- MODULE Spec2Model ----
(***************************************************************************)
(* Model of the analysis pipeline of Job-Scout-ai (src/server.ts):         *)
(* POST /api/analyze -> extractText -> scrapeLinkedInJobs ->               *)
(* normalizeJobData -> analyzeCvAndJobs -> response.                       *)
(*                                                                         *)
(* One request is followed from arrival to its response.  Every await of   *)
(* the handler is a point where the model stops; the step that follows     *)
(* draws the outcome of the awaited call (provider, completion service,    *)
(* parser) from a small set.                                               *)
(***************************************************************************)
EXTENDS Integers, Sequences, FiniteSets, TLC

(***************************************************************************)
(* Bounds of the model                                                     *)
(***************************************************************************)
\* longest sequence of status polls the provider is followed through
MaxPolls == 3
\* most listings the provider's dataset returns in the request model
MaxListings == 2
\* most jobs handed to analyzeCvAndJobs in the scoring model
MaxScoreJobs == 6

(***************************************************************************)
(* JavaScript values                                                       *)
(***************************************************************************)
\* the value undefined of a string-valued field (a missing form field,
\* a missing key of a listing, an unset environment variable)
UNDEF == "<undefined>"

\* JavaScript truthiness of a string-or-undefined value, as used by || and !
Truthy(s) == s # UNDEF /\ s # ""

\* a || b on string-or-undefined values
Or(a, b) == IF Truthy(a) THEN a ELSE b

\* NaN, as a result of parseInt; a number n is <<n>>
NaN == << >>

Digits == <<"0", "1", "2", "3", "4", "5", "6", "7", "8", "9">>

IsDigit(c) == \E d \in 1..10 : Digits[d] = c

DigitVal(c) == (CHOOSE d \in 1..10 : Digits[d] = c) - 1

RECURSIVE ParseDigits(_, _, _)
\* value of the longest prefix of digits of s[i..], acc the value so far
ParseDigits(s, i, acc) ==
  IF i > Len(s) \/ ~IsDigit(s[i]) THEN acc
  ELSE ParseDigits(s, i + 1, 10 * acc + DigitVal(s[i]))

\* parseInt(s) on a form field given as its sequence of characters (an
\* absent field or the empty string is << >>): an optional sign, then the
\* longest prefix of digits; NaN when there is no digit
ParseInt(s) ==
  LET neg   == Len(s) > 0 /\ s[1] = "-"
      first == IF Len(s) > 0 /\ (s[1] = "-" \/ s[1] = "+") THEN 2 ELSE 1
  IN  IF first > Len(s) \/ ~IsDigit(s[first]) THEN NaN
      ELSE IF neg THEN << 0 - ParseDigits(s, first, 0) >>
      ELSE << ParseDigits(s, first, 0) >>

\* p || d where p is a parseInt result: NaN and 0 are falsy
OrDefault(p, d) == IF p = NaN \/ p = <<0>> THEN d ELSE p[1]

Min(a, b) == IF a < b THEN a ELSE b

(***************************************************************************)
(* Program constants                                                       *)
(***************************************************************************)
HardCap == 100
DefaultMaxJobs == 50
DefaultThreshold == 60
ChunkSize == 5

(***************************************************************************)
(* Inputs                                                                  *)
(***************************************************************************)
\* values of the maxJobs form field
MaxJobsInputs ==
  { << >>, <<"0">>, <<"1", "0", "0">>, <<"1", "0", "1">>, <<"5", "0", "0">> }

\* values of the scoreThreshold form field
ScoreThresholdInputs == { << >>, <<"0">>, <<"7", "0">>, <<"1", "0", "0">> }

\* values of the apifyToken form field and of APIFY_API_TOKEN
CallerTokens == { UNDEF, "", "tok-ui" }
EnvTokens == { UNDEF, "tok-env" }

\* run statuses the provider reports
NonTerminal == { "RUNNING", "READY" }
Statuses == NonTerminal \cup { "SUCCEEDED", "FAILED", "ABORTED", "TIMED-OUT" }

\* scores the completion service returns
ScoreValues == { 50, 70, 90 }

\* outcomes of one scoring call: the call or the parse of its text throws,
\* or the parsed result carries a score
ScoreOutcomes ==
  { [kind |-> "throw", score |-> 0] } \cup
  { [kind |-> "ok", score |-> s] : s \in ScoreValues }

\* a listing with no key at all
EmptyListing ==
  [ id |-> UNDEF, jobId |-> UNDEF, companyName |-> UNDEF, company |-> UNDEF,
    companyLogo |-> UNDEF, logo |-> UNDEF, title |-> UNDEF, jobTitle |-> UNDEF,
    url |-> UNDEF, jobUrl |-> UNDEF, applyUrl |-> UNDEF,
    description |-> UNDEF, text |-> UNDEF, postedAt |-> UNDEF ]

\* listings the provider's dataset holds in the request model
ProviderListings ==
  { EmptyListing,
    [EmptyListing EXCEPT !.id = "A"],
    [EmptyListing EXCEPT !.jobId = "A", !.title = "Dev"] }

RECURSIVE SeqsUpTo(_, _)
\* the sequences over S of length at most n
SeqsUpTo(S, n) ==
  IF n = 0 THEN { << >> }
  ELSE LET shorter == SeqsUpTo(S, n - 1)
       IN  shorter \cup { Append(q, x) : q \in shorter, x \in S }

(***************************************************************************)
(* Listing Normalizer                                                      *)
(***************************************************************************)
\* uuidv4(): the n-th identifier generated in a request; generated
\* identifiers differ from each other and from the provider's ids
uuidv4(n) == "uuid-" \o ToString(n)

\* the date new Date().toISOString().split('T')[0] yields during the request
Today == "2025-01-01"

\* normalizeJobData(rawJob), n being the number of the call within the request
normalizeJobData(rawJob, n) ==
  [ jobId       |-> Or(rawJob.id, Or(rawJob.jobId, uuidv4(n))),
    companyName |-> Or(rawJob.companyName, Or(rawJob.company, "Unknown Company")),
    companyLogo |-> Or(rawJob.companyLogo, Or(rawJob.logo, "null")),
    jobTitle    |-> Or(rawJob.title, Or(rawJob.jobTitle, "Untitled Role")),
    jobUrl      |-> Or(rawJob.url, Or(rawJob.jobUrl, "")),
    applyUrl    |-> Or(rawJob.applyUrl, Or(rawJob.url, "")),
    description |-> Or(rawJob.description, Or(rawJob.text, "")),
    scrapedAt   |-> Or(rawJob.postedAt, Today) ]

\* rawJobs.map(normalizeJobData)
NormalizeAll(raws) == [ i \in 1..Len(raws) |-> normalizeJobData(raws[i], i) ]

(***************************************************************************)
(* Job Scorer: pure parts                                                  *)
(***************************************************************************)
\* arr.slice(from) with a 0-based index
SliceFrom(arr, from) == SubSeq(arr, from + 1, Len(arr))

\* the jobs scored as one chunk
chunkArray_OneChunk(arr, size) == << arr >>

RECURSIVE chunkArray(_, _)
\* chunkArray(arr, size): the empty array gives one empty chunk
chunkArray(arr, size) ==
  IF Len(arr) > size
  THEN << SubSeq(arr, 1, size) >> \o chunkArray(SliceFrom(arr, size), size)
  ELSE << arr >>

\* the value null of a scoring promise, and a promise not yet settled
Null == [ null |-> TRUE ]
Pending == [ pending |-> TRUE ]

\* { ...job, ...result }
WithResult(job, score) ==
  [ jobId |-> job.jobId, companyName |-> job.companyName,
    companyLogo |-> job.companyLogo, jobTitle |-> job.jobTitle,
    jobUrl |-> job.jobUrl, applyUrl |-> job.applyUrl,
    description |-> job.description, scrapedAt |-> job.scrapedAt,
    score |-> score ]

\* the filter left out
MeetsThreshold_NoFilter(score, thr) == TRUE

\* result.score >= threshold
MeetsThreshold(score, thr) == score >= thr

\* what the async callback of chunk.map returns for one job
ScoreOne(job, oc, thr) ==
  IF oc.kind = "throw" THEN Null
  ELSE IF MeetsThreshold(oc.score, thr) THEN WithResult(job, oc.score)
  ELSE Null

\* results.filter(r => r !== null)
NonNull(rs) == SelectSeq(rs, LAMBDA r : r # Null)

\* the comparator (a, b) => b.score - a.score
Compare(a, b) == b.score - a.score

RECURSIVE InsertSorted_Unstable(_, _)
\* x put before the elements it ties with
InsertSorted_Unstable(s, x) ==
  IF s = << >> THEN << x >>
  ELSE IF Compare(Head(s), x) < 0
       THEN << Head(s) >> \o InsertSorted_Unstable(Tail(s), x)
  ELSE << x >> \o s

RECURSIVE InsertSorted(_, _)
\* x put into the sorted sequence s after every element it does not precede
InsertSorted(s, x) ==
  IF s = << >> THEN << x >>
  ELSE IF Compare(Head(s), x) <= 0 THEN << Head(s) >> \o InsertSorted(Tail(s), x)
  ELSE << x >> \o s

RECURSIVE SortJobs(_)
\* Array.prototype.sort with Compare: a stable sort
SortJobs(s) ==
  IF s = << >> THEN << >>
  ELSE InsertSorted(SortJobs(SubSeq(s, 1, Len(s) - 1)), s[Len(s)])

(***************************************************************************)
(* State of one request to POST /api/analyze                               *)
(***************************************************************************)
VARIABLES
  pc,              \* where the handler is suspended
  req,             \* the request: file attached, form fields
  env,             \* process.env.APIFY_API_TOKEN
  fileExists,      \* the uploaded file file.path is on disk
  sent,            \* scrapeLinkedInJobs: the start call (token, body), << >> before it
  status,          \* scrapeLinkedInJobs: the local status
  delays,          \* scrapeLinkedInJobs: 5-second sleeps that have elapsed
  polls,           \* scrapeLinkedInJobs: statuses the polls reported, in order
  rawJobs,         \* items returned by scrapeLinkedInJobs
  normalizedJobs,  \* rawJobs.map(normalizeJobData): jobs of analyzeCvAndJobs
  threshold,       \* analyzeCvAndJobs: the parameter threshold
  cvData,          \* analyzeCvAndJobs: JSON.parse(cvResponse.text)
  ci,              \* analyzeCvAndJobs: number of the chunk being scored
  results,         \* analyzeCvAndJobs: the promises of the current chunk
  outcome,         \* what the completion service answered for each job
  scoredJobs,      \* analyzeCvAndJobs: scoredJobs
  analysisResult,  \* << jobs >> of the value analyzeCvAndJobs returned, << >> before
  error,           \* message of the error caught by the handler
  responses,       \* responses sent on res, in order
  issued           \* outbound calls issued: kind, and whether the file existed

vars ==
  << pc, req, env, fileExists, sent, status, delays, polls, rawJobs,
     normalizedJobs, threshold, cvData, ci, results, outcome, scoredJobs,
     analysisResult, error, responses, issued >>

scrapeVars == << sent, status, delays, polls >>
scoreVars == << threshold, cvData, ci, results, outcome, scoredJobs >>

\* cvData before the profiling response is parsed
NoProfile == "none"

\* what JSON.parse(cvResponse.text) yields when the text parses: an object
\* with skills, profileSummary and experienceHighlights, or a JSON value
\* without them (such as {})
ParsedProfiles == { "profile", "nonconforming" }

\* a scoring call not yet answered
NoOutcome == [ kind |-> "none", score |-> 0 ]

NoError == UNDEF

\* the state of scrapeLinkedInJobs's frame when the function is not active
ScrapeIdle ==
  /\ sent = << >>
  /\ status = UNDEF
  /\ delays = 0
  /\ polls = << >>

ScrapeReset ==
  /\ sent' = << >>
  /\ status' = UNDEF
  /\ delays' = 0
  /\ polls' = << >>

\* an outbound call of the given kind is issued now
Issue(kind) == issued' = issued \cup { [ kind |-> kind, file |-> fileExists ] }

IssuedKinds == { c.kind : c \in issued }

\* the handler's catch block is entered with this message
Throw(msg) ==
  /\ error' = msg
  /\ pc' = "catch"

Requests ==
  [ file : BOOLEAN, maxJobs : MaxJobsInputs,
    scoreThreshold : ScoreThresholdInputs, apifyToken : CallerTokens ]

\* multer has stored the upload (when there is one) and calls the handler
Init ==
  /\ pc = "handler"
  /\ req \in Requests
  /\ env \in EnvTokens
  /\ fileExists = req.file
  /\ ScrapeIdle
  /\ rawJobs = << >>
  /\ normalizedJobs = << >>
  /\ threshold = 0
  /\ cvData = NoProfile
  /\ ci = 0
  /\ results = << >>
  /\ outcome = << >>
  /\ scoredJobs = << >>
  /\ analysisResult = << >>
  /\ error = NoError
  /\ responses = << >>
  /\ issued = { }

(***************************************************************************)
(* POST /api/analyze: entry and text extraction                            *)
(***************************************************************************)
\* a response: its status, the error of its body, and << jobs >> when the
\* body is an analysis (<< >> when it carries no jobs list)
Response400 ==
  [ status |-> 400, error |-> "No CV file uploaded.", jobs |-> << >> ]

\* failures answered with another status
Response502_As500(msg) == [ status |-> 500, error |-> msg, jobs |-> << >> ]

Response502(msg) == [ status |-> 502, error |-> msg, jobs |-> << >> ]

Response200(jobs) == [ status |-> 200, error |-> UNDEF, jobs |-> << jobs >> ]

\* if (!file) return res.status(400).json(...)
NoFile ==
  /\ pc = "handler"
  /\ ~req.file
  /\ responses' = Append(responses, Response400)
  /\ pc' = "done"
  /\ UNCHANGED << req, env, fileExists, scrapeVars, rawJobs, normalizedJobs,
                  scoreVars, analysisResult, error, issued >>

\* the handler enters the try block and awaits extractText
BeginExtract ==
  /\ pc = "handler"
  /\ req.file
  /\ pc' = "extract"
  /\ UNCHANGED << req, env, fileExists, scrapeVars, rawJobs, normalizedJobs,
                  scoreVars, analysisResult, error, responses, issued >>

\* maxItems of the call scrapeLinkedInJobs(searchUrl, parseInt(maxJobs) || 50, ..)
MaxItemsArg(r) == OrDefault(ParseInt(r.maxJobs), DefaultMaxJobs)

\* the process configuration tried before the caller's value
ResolveToken_EnvFirst(apiToken, envToken) == Or(envToken, apiToken)

\* const token = apiToken || process.env.APIFY_API_TOKEN
ResolveToken(apiToken, envToken) == Or(apiToken, envToken)

\* the requested count sent as it is
StartBody_NoCap(maxItems) == [ maxItems |-> maxItems, limit |-> maxItems ]

\* body of the start call
StartBody(maxItems) ==
  [ maxItems |-> Min(maxItems, HardCap), limit |-> Min(maxItems, HardCap) ]

\* the start call: the token of its URL and the fields of its body
StartRequest(token, maxItems) == [ token |-> token ] @@ StartBody(maxItems)

MissingTokenMsg ==
  "Missing Apify API Token. Provide it in the UI settings or .env (APIFY_API_TOKEN)."

\* the file removed as soon as its text is extracted
FileAfterExtract_Removed(exists) == FALSE

\* extractText reads the file and leaves it in place
FileAfterExtract(exists) == exists

\* extractText returned; scrapeLinkedInJobs runs up to its first await
ExtractOk ==
  /\ pc = "extract"
  /\ fileExists' = FileAfterExtract(fileExists)
  /\ LET token == ResolveToken(req.apifyToken, env)
     IN  IF ~Truthy(token)
         THEN /\ Throw(MissingTokenMsg)
              /\ UNCHANGED << sent, issued >>
         ELSE /\ sent' = << StartRequest(token, MaxItemsArg(req)) >>
              /\ Issue("start")
              /\ pc' = "start_wait"
              /\ UNCHANGED error
  /\ UNCHANGED << req, env, status, delays, polls, rawJobs, normalizedJobs,
                  scoreVars, analysisResult, responses >>

\* the decode threw: extractText rethrows a single message
ExtractFail ==
  /\ pc = "extract"
  /\ fileExists' = FileAfterExtract(fileExists)
  /\ Throw("Failed to parse CV file.")
  /\ UNCHANGED << req, env, scrapeVars, rawJobs, normalizedJobs,
                  scoreVars, analysisResult, responses, issued >>

(***************************************************************************)
(* scrapeLinkedInJobs                                                      *)
(***************************************************************************)
\* raw error texts of an unsuccessful start call
StartErrors == { "unauthorized", "actor-not-found" }

\* the first status request sent without sleeping first
StartOk_PollFirst ==
  /\ pc = "start_wait"
  /\ status' = "RUNNING"
  /\ issued' = issued \cup { [ kind |-> "poll", file |-> fileExists ] }
  /\ pc' = "poll_wait"
  /\ UNCHANGED << req, env, fileExists, sent, delays, polls, rawJobs,
                  normalizedJobs, threshold, cvData, ci, results, outcome,
                  scoredJobs, analysisResult, error, responses >>

\* startRes.ok: the run is started, the poll loop begins its first sleep
StartOk ==
  /\ pc = "start_wait"
  /\ status' = "RUNNING"
  /\ pc' = "sleep"
  /\ UNCHANGED << req, env, fileExists, sent, delays, polls, rawJobs,
                  normalizedJobs, scoreVars, analysisResult, error, responses,
                  issued >>

\* !startRes.ok
StartFail ==
  /\ pc = "start_wait"
  /\ \E err \in StartErrors : Throw("Apify start failed: " \o err)
  /\ UNCHANGED << req, env, fileExists, scrapeVars, rawJobs, normalizedJobs,
                  scoreVars, analysisResult, responses, issued >>

\* the loop condition status === 'RUNNING' || status === 'READY'
KeepsPolling(st) == st \in NonTerminal

\* the 5-second timer fires and the status request is sent
SleepElapsed ==
  /\ pc = "sleep"
  /\ delays' = delays + 1
  /\ Issue("poll")
  /\ pc' = "poll_wait"
  /\ UNCHANGED << req, env, fileExists, sent, status, polls, rawJobs,
                  normalizedJobs, scoreVars, analysisResult, error, responses >>

RunFailedMsg(st) == "Apify run failed with status: " \o st

\* the dataset fetched whatever the final status
AfterLoop_NoCheck(st) ==
  /\ Issue("dataset")
  /\ pc' = "items_wait"
  /\ UNCHANGED error

\* what follows the poll loop once it is left with status st
AfterLoop(st) ==
  IF st # "SUCCEEDED"
  THEN /\ Throw(RunFailedMsg(st))
       /\ UNCHANGED issued
  ELSE /\ Issue("dataset")
       /\ pc' = "items_wait"
       /\ UNCHANGED error

\* the status request is answered: status = pollData.data.status, then the
\* loop condition, and after the loop the status check and the dataset fetch
PollResponse ==
  /\ pc = "poll_wait"
  /\ \E st \in Statuses :
       /\ st \in NonTerminal => Len(polls) + 1 < MaxPolls
       /\ status' = st
       /\ polls' = Append(polls, st)
       /\ IF KeepsPolling(st)
          THEN /\ pc' = "sleep"
               /\ UNCHANGED << error, issued >>
          ELSE AfterLoop(st)
  /\ UNCHANGED << req, env, fileExists, sent, delays, rawJobs, normalizedJobs,
                  scoreVars, analysisResult, responses >>

\* message of a fetch that rejects or of a response body that does not parse
FetchErrorMsg == "request to https://api.apify.com failed"

\* the status request rejects, or its body is not the JSON expected
PollFail ==
  /\ pc = "poll_wait"
  /\ Throw(FetchErrorMsg)
  /\ UNCHANGED << req, env, fileExists, scrapeVars, rawJobs, normalizedJobs,
                  scoreVars, analysisResult, responses, issued >>

\* the dataset request rejects, or its body is not JSON
ItemsFail ==
  /\ pc = "items_wait"
  /\ Throw(FetchErrorMsg)
  /\ UNCHANGED << req, env, fileExists, scrapeVars, rawJobs, normalizedJobs,
                  scoreVars, analysisResult, responses, issued >>

\* the dataset request is answered and scrapeLinkedInJobs returns the items
ItemsResponse ==
  /\ pc = "items_wait"
  /\ \E items \in SeqsUpTo(ProviderListings, MaxListings) : rawJobs' = items
  /\ pc' = "scraped"
  /\ UNCHANGED << req, env, fileExists, scrapeVars, normalizedJobs, scoreVars,
                  analysisResult, error, responses, issued >>

(***************************************************************************)
(* analyzeCvAndJobs                                                        *)
(***************************************************************************)
\* threshold of the call analyzeCvAndJobs(.., parseInt(scoreThreshold) || 60)
ThresholdArg(r) == OrDefault(ParseInt(r.scoreThreshold), DefaultThreshold)

\* the handler resumes with the items: normalizes them and calls
\* analyzeCvAndJobs, which runs up to the CV profiling request
BeginAnalysis ==
  /\ pc = "scraped"
  /\ normalizedJobs' = NormalizeAll(rawJobs)
  /\ threshold' = ThresholdArg(req)
  /\ outcome' = [ i \in 1..Len(rawJobs) |-> NoOutcome ]
  /\ ScrapeReset
  /\ Issue("profile")
  /\ pc' = "profile_wait"
  /\ UNCHANGED << req, env, fileExists, rawJobs, cvData, ci, results,
                  scoredJobs, analysisResult, error, responses >>

Chunks == chunkArray(normalizedJobs, ChunkSize)

\* chunk.map(async job => ..): one scoring request per job of chunk c
IssueChunk(c) ==
  /\ ci' = c
  /\ results' = [ k \in 1..Len(Chunks[c]) |-> Pending ]
  /\ IF Len(Chunks[c]) > 0 THEN Issue("score") ELSE UNCHANGED issued

ProfileErrors == { "profiling request failed", "Unexpected end of JSON input" }

\* the profiling request is answered and its text parses: the first chunk
\* is issued
ProfileOk ==
  /\ pc = "profile_wait"
  /\ \E parsed \in ParsedProfiles : cvData' = parsed
  /\ scoredJobs' = << >>
  /\ IssueChunk(1)
  /\ pc' = "score_wait"
  /\ UNCHANGED << req, env, fileExists, scrapeVars, rawJobs, normalizedJobs,
                  threshold, outcome, analysisResult, error, responses >>

\* the profiling request fails or JSON.parse(cvResponse.text) throws
ProfileFail ==
  /\ pc = "profile_wait"
  /\ \E msg \in ProfileErrors : Throw(msg)
  /\ UNCHANGED << req, env, fileExists, scrapeVars, rawJobs, normalizedJobs,
                  scoreVars, analysisResult, responses, issued >>

\* position in jobs of the k-th job of chunk c
JobIndex(c, k) == (c - 1) * ChunkSize + k

\* number of scoring requests in flight
InFlight == Cardinality({ k \in 1..Len(results) : results[k] = Pending })

\* one scoring request of the current chunk settles, in any order
ScoreResponse ==
  /\ pc = "score_wait"
  /\ \E k \in 1..Len(results), oc \in ScoreOutcomes :
       /\ results[k] = Pending
       /\ results' = [ results EXCEPT ![k] = ScoreOne(Chunks[ci][k], oc, threshold) ]
       /\ outcome' = [ outcome EXCEPT ![JobIndex(ci, k)] = oc ]
  /\ UNCHANGED << pc, req, env, fileExists, scrapeVars, rawJobs, normalizedJobs,
                  threshold, cvData, ci, scoredJobs, analysisResult, error,
                  responses, issued >>

\* one failed job loses the whole chunk
Collect_AllOrNothing(done, rs) ==
  IF \E k \in 1..Len(rs) : rs[k] = Null THEN done ELSE done \o rs

\* scoredJobs.push(...results.filter(r => r !== null))
Collect(done, rs) == done \o NonNull(rs)

\* the jobs returned in the order they were collected
FinalJobs_Unsorted(done) == done

\* jobs: scoredJobs.sort((a, b) => b.score - a.score)
FinalJobs(done) == SortJobs(done)

\* Promise.all of the current chunk resolves: its non-null results are
\* pushed; then the for loop issues the next chunk or, after the last one,
\* analyzeCvAndJobs sorts scoredJobs in place and returns
ChunkDone ==
  /\ pc = "score_wait"
  /\ InFlight = 0
  /\ IF ci < Len(Chunks)
     THEN /\ scoredJobs' = Collect(scoredJobs, results)
          /\ IssueChunk(ci + 1)
          /\ UNCHANGED << pc, analysisResult >>
     ELSE /\ scoredJobs' = FinalJobs(Collect(scoredJobs, results))
          /\ analysisResult' = << scoredJobs' >>
          /\ results' = << >>
          /\ pc' = "analyzed"
          /\ UNCHANGED << ci, issued >>
  /\ UNCHANGED << req, env, fileExists, scrapeVars, rawJobs, normalizedJobs,
                  threshold, cvData, outcome, error, responses >>

(***************************************************************************)
(* POST /api/analyze: the two ends of the try block                        *)
(***************************************************************************)
\* fs.unlinkSync(file.path); res.json(analysisResult)
RespondOk ==
  /\ pc = "analyzed"
  /\ fileExists' = FALSE
  /\ responses' = Append(responses, Response200(analysisResult[1]))
  /\ pc' = "done"
  /\ UNCHANGED << req, env, scrapeVars, rawJobs, normalizedJobs, scoreVars,
                  analysisResult, error, issued >>

\* the failure path leaves the file behind
CatchCleanup_Skipped(exists) == exists

\* if (file && fs.existsSync(file.path)) fs.unlinkSync(file.path)
CatchCleanup(exists) == IF req.file /\ exists THEN FALSE ELSE exists

\* the catch block: cleanup, then res.status(502).json({ error: error.message })
Catch ==
  /\ pc = "catch"
  /\ fileExists' = CatchCleanup(fileExists)
  /\ responses' = Append(responses, Response502(error))
  /\ ScrapeReset
  /\ pc' = "done"
  /\ UNCHANGED << req, env, rawJobs, normalizedJobs, scoreVars, analysisResult,
                  error, issued >>

Next ==
  \/ NoFile
  \/ BeginExtract
  \/ ExtractOk
  \/ ExtractFail
  \/ StartOk
  \/ StartFail
  \/ SleepElapsed
  \/ PollResponse
  \/ PollFail
  \/ ItemsResponse
  \/ ItemsFail
  \/ BeginAnalysis
  \/ ProfileOk
  \/ ProfileFail
  \/ ScoreResponse
  \/ ChunkDone
  \/ RespondOk
  \/ Catch

Spec == Init /\ [][Next]_vars

(***************************************************************************)
(* analyzeCvAndJobs on its own: the request has reached the scoring of     *)
(* jobs (the profile has been parsed and the first chunk issued) with a    *)
(* dataset of up to MaxScoreJobs listings, so that several chunks occur.   *)
(***************************************************************************)
\* thresholds of the scoring model's requests
ScoreModelThresholds == { << >>, <<"7", "0">> }

InitScore ==
  \E n \in 0..MaxScoreJobs, t \in ScoreModelThresholds :
    /\ pc = "score_wait"
    /\ req = [ file |-> TRUE, maxJobs |-> << >>, scoreThreshold |-> t,
               apifyToken |-> UNDEF ]
    /\ env = "tok-env"
    /\ fileExists = TRUE
    /\ ScrapeIdle
    /\ rawJobs = [ i \in 1..n |-> EmptyListing ]
    /\ normalizedJobs = NormalizeAll(rawJobs)
    /\ threshold = ThresholdArg(req)
    /\ cvData = "profile"
    /\ ci = 1
    /\ results = [ k \in 1..Len(Chunks[1]) |-> Pending ]
    /\ outcome = [ i \in 1..n |-> NoOutcome ]
    /\ scoredJobs = << >>
    /\ analysisResult = << >>
    /\ error = NoError
    /\ responses = << >>
    /\ issued = { [ kind |-> k, file |-> TRUE ] :
                    k \in { "start", "poll", "dataset", "profile" }
                          \cup (IF n > 0 THEN { "score" } ELSE { }) }

NextScore ==
  \/ ScoreResponse
  \/ ChunkDone
  \/ RespondOk

SpecScore == InitScore /\ [][NextScore]_vars

(***************************************************************************)
(* Properties                                                              *)
(***************************************************************************)
Last(q) == q[Len(q)]

\* the 200 responses sent so far
OkResponses ==
  { responses[n] : n \in { m \in 1..Len(responses) : responses[m].status = 200 } }

\* the threshold the caller supplied, as a parseInt result (NaN when none)
CallerThreshold == ParseInt(req.scoreThreshold)

\* job i of the input, with the score the completion service gave it
Scored(i) == WithResult(normalizedJobs[i], outcome[i].score)

\* C1: for every caller-supplied threshold T in 0..100, every job of a 200
\* response has score >= T, and no job the Scorer scored below T is in it
C1_ScoresMeetThreshold ==
  \A r \in OkResponses :
    (CallerThreshold # NaN /\ CallerThreshold[1] \in 0..100) =>
      /\ \A j \in 1..Len(r.jobs[1]) : r.jobs[1][j].score >= CallerThreshold[1]
      /\ \A i \in 1..Len(normalizedJobs) :
           (outcome[i].kind = "ok" /\ outcome[i].score < CallerThreshold[1]) =>
             \A j \in 1..Len(r.jobs[1]) : r.jobs[1][j] # Scored(i)

\* a 200 response to a request with threshold 70 that keeps one job and
\* has dropped a job scored 50
C1_Witness ==
  /\ CallerThreshold = <<70>>
  /\ \E r \in OkResponses :
       /\ Len(r.jobs[1]) = 1
       /\ \E i \in 1..Len(normalizedJobs) :
            outcome[i].kind = "ok" /\ outcome[i].score = 50

\* the jobs analyzeCvAndJobs returned
Returned == analysisResult[1]

\* C2: the jobs analyzeCvAndJobs returns are sorted non-increasingly by
\* score, whatever the chunk of a job and the order the calls settled in
C2_SortedByScore ==
  analysisResult # << >> =>
    \A j \in 1..(Len(Returned) - 1) :
      Returned[j].score >= Returned[j + 1].score

\* a result led by a job of the second chunk that was scored higher than a
\* job of the first chunk
C2_Witness ==
  /\ analysisResult # << >>
  /\ Len(Returned) >= 3
  /\ Returned[1].jobId = "uuid-6"
  /\ Returned[1].score > Returned[Len(Returned)].score

\* job i of the input is in the returned jobs
Appears(i) ==
  \E j \in 1..Len(Returned) : Returned[j] = Scored(i)

\* job i was scored and its score meets the threshold of analyzeCvAndJobs
Passes(i) == outcome[i].kind = "ok" /\ outcome[i].score >= threshold

\* C3: a scoring failure on a job removes only that job: the request is not
\* aborted, every job is scored, and a job is in the returned jobs exactly
\* when its own call succeeded with a score that meets the threshold
C3_FailureIsolated ==
  /\ pc # "catch"
  /\ error = NoError
  /\ analysisResult # << >> =>
       /\ \A i \in 1..Len(normalizedJobs) :
            /\ outcome[i] # NoOutcome
            /\ Appears(i) <=> Passes(i)
       /\ Len(Returned) =
            Cardinality({ i \in 1..Len(normalizedJobs) : Passes(i) })

\* the call for job 2 threw; jobs 1 and 3 of the same chunk and job 6 of
\* the next chunk are returned
C3_Witness ==
  /\ analysisResult # << >>
  /\ Len(normalizedJobs) >= 6
  /\ outcome[2].kind = "throw"
  /\ Appears(1) /\ Appears(3) /\ Appears(6)
  /\ ~Appears(2)

\* C4: no two jobs of one response have the same jobId, whatever ids the
\* provider's listings carry (present, absent, repeated)
C4_UniqueJobIds ==
  \A r \in OkResponses :
    \A i, j \in 1..Len(r.jobs[1]) :
      i # j => r.jobs[1][i].jobId # r.jobs[1][j].jobId

\* C5: the item count of the start call, maxItems and limit, is at most
\* 100 for every requested maxJobs; 500 is sent as 100
C5_ItemCountCapped ==
  sent # << >> =>
    /\ sent[1].maxItems <= 100
    /\ sent[1].limit <= 100
    /\ ParseInt(req.maxJobs) = <<500>> =>
         (sent[1].maxItems = 100 /\ sent[1].limit = 100)

\* the start call of a request for 500 jobs
C5_Witness ==
  /\ sent # << >>
  /\ req.maxJobs = <<"5", "0", "0">>
  /\ sent[1].maxItems = 100

RunningRunningSucceeded == << "RUNNING", "RUNNING", "SUCCEEDED" >>

\* C6 as stated: polls reporting RUNNING, RUNNING, SUCCEEDED make
\* scrapeLinkedInJobs return the items after exactly 2 sleeps
C6_TwoDelays ==
  (pc = "scraped" /\ polls = RunningRunningSucceeded) => delays = 2

\* C6 amended: polls reporting RUNNING, RUNNING, SUCCEEDED make
\* scrapeLinkedInJobs return the items after exactly 3 sleeps, one before
\* each status poll
C6_ThreeDelays ==
  /\ (pc = "scraped" /\ polls = RunningRunningSucceeded) => delays = 3
  /\ pc \in { "sleep", "items_wait", "scraped" } => delays = Len(polls)
  /\ pc = "poll_wait" => delays = Len(polls) + 1

\* scrapeLinkedInJobs has returned after RUNNING, RUNNING, SUCCEEDED
C6_Witness ==
  /\ pc = "scraped"
  /\ polls = RunningRunningSucceeded
  /\ Len(rawJobs) > 0

RunFailedMsgs == { RunFailedMsg(st) : st \in Statuses }

\* C7: when the first status outside RUNNING, READY is not SUCCEEDED,
\* scrapeLinkedInJobs throws an error carrying that status and the dataset
\* is never fetched; the dataset is fetched only after SUCCEEDED was seen
C7_RunFailureRaised ==
  /\ \A n \in 1..(Len(polls) - 1) : polls[n] \in NonTerminal
  /\ (pc # "poll_wait" /\ polls # << >>
        /\ Last(polls) \notin NonTerminal \cup { "SUCCEEDED" }) =>
       /\ pc = "catch"
       /\ error = RunFailedMsg(Last(polls))
  /\ error \in RunFailedMsgs => "dataset" \notin IssuedKinds
  /\ pc \in { "items_wait", "scraped" } =>
       (polls # << >> /\ Last(polls) = "SUCCEEDED")
  /\ "dataset" \in IssuedKinds =>
       pc \notin { "handler", "extract", "start_wait", "sleep", "poll_wait" }

\* the run was reported RUNNING, then FAILED
C7_Witness ==
  /\ pc = "catch"
  /\ polls = << "RUNNING", "FAILED" >>
  /\ error = "Apify run failed with status: FAILED"
  /\ "dataset" \notin IssuedKinds

\* C8: once a request that came with a file has been answered, with 200 or
\* 502, the uploaded file no longer exists, whichever stage failed
C8_FileRemovedOnAnswer ==
  (req.file /\ responses # << >>) =>
    /\ Last(responses).status \in { 200, 502 }
    /\ ~fileExists

\* a request answered 502 after profiling failed, its file removed
C8_Witness ==
  /\ req.file
  /\ responses # << >>
  /\ Last(responses).status = 502
  /\ error \in ProfileErrors
  /\ ~fileExists

\* calls to the listing provider and to the completion service
PipelineCalls == { "start", "poll", "dataset", "profile", "score" }

\* C9 as stated: the uploaded file is removed right after extraction: it no
\* longer exists when the start call, a poll or a completion call is issued
C9_FileGoneAfterExtraction ==
  \A c \in issued : c.kind \in PipelineCalls => ~c.file

\* C9 amended: the uploaded file lives for the whole request: it exists
\* when the start call, every poll and every completion call is issued,
\* and is removed when the request is answered, on success or failure
C9_FileLivesForRequest ==
  /\ \A c \in issued : c.kind \in PipelineCalls => c.file
  /\ (req.file /\ responses = << >>) => fileExists
  /\ (req.file /\ responses # << >>) => ~fileExists

\* a request answered after scoring calls were issued with the file on disk
C9_Witness ==
  /\ responses # << >>
  /\ ~fileExists
  /\ [ kind |-> "score", file |-> TRUE ] \in issued
  /\ [ kind |-> "poll", file |-> TRUE ] \in issued

\* messages of the pipeline steps that fail the request
StepMessages ==
  { "Failed to parse CV file.", MissingTokenMsg, FetchErrorMsg }
    \cup { "Apify start failed: " \o e : e \in StartErrors }
    \cup RunFailedMsgs \cup ProfileErrors

\* C10: a request is answered at most once, and when the handler is done
\* exactly once: 400 with no pipeline step run when no file is attached,
\* 502 with the failing step's message when a step failed, 200 with the
\* analysis otherwise
C10_OneAnswerPerRequest ==
  /\ Len(responses) <= 1
  /\ pc = "done" <=> Len(responses) = 1
  /\ ~req.file =>
       /\ pc \in { "handler", "done" }
       /\ issued = { } /\ error = NoError /\ analysisResult = << >>
       /\ pc = "done" => responses = << Response400 >>
  /\ pc = "catch" => error \in StepMessages
  /\ (req.file /\ pc = "done") =>
       IF error # NoError
       THEN /\ error \in StepMessages
            /\ responses = << Response502(error) >>
            /\ responses[1].status = 502
       ELSE /\ analysisResult # << >>
            /\ responses = << Response200(analysisResult[1]) >>

\* a request answered 502 with the provider's start error
C10_Witness ==
  /\ pc = "done"
  /\ responses = << [ status |-> 502,
                      error |-> "Apify start failed: unauthorized",
                      jobs |-> << >> ] >>

(***************************************************************************)
(* normalizeJobData on its own: scrapeLinkedInJobs has returned a dataset  *)
(* of one listing whose keys are present or absent in every combination;   *)
(* the handler normalizes it.                                              *)
(***************************************************************************)
\* a key of a listing: absent, or holding the given value
Key(v) == { UNDEF, v }

NormalizerListings ==
  [ id : { UNDEF, "", "A" }, jobId : Key("B"),
    companyName : Key("Acme"), company : Key("Acme Inc"),
    companyLogo : { UNDEF }, logo : { UNDEF },
    title : Key("Dev"), jobTitle : Key("Engineer"),
    url : Key("https://jobs/1"), jobUrl : Key("https://jobs/view/1"),
    applyUrl : Key("https://apply/1"),
    description : Key("Build things"), text : Key("Build"),
    postedAt : { UNDEF } ]

InitNormalize ==
  \E raw \in NormalizerListings :
    /\ pc = "scraped"
    /\ req = [ file |-> TRUE, maxJobs |-> << >>, scoreThreshold |-> << >>,
               apifyToken |-> UNDEF ]
    /\ env = "tok-env"
    /\ fileExists = TRUE
    /\ sent = << StartRequest(ResolveToken(req.apifyToken, env), MaxItemsArg(req)) >>
    /\ status = "SUCCEEDED"
    /\ delays = 1
    /\ polls = << "SUCCEEDED" >>
    /\ rawJobs = << raw >>
    /\ normalizedJobs = << >>
    /\ threshold = 0
    /\ cvData = NoProfile
    /\ ci = 0
    /\ results = << >>
    /\ outcome = << >>
    /\ scoredJobs = << >>
    /\ analysisResult = << >>
    /\ error = NoError
    /\ responses = << >>
    /\ issued = { [ kind |-> k, file |-> TRUE ] :
                    k \in { "start", "poll", "dataset" } }

NextNormalize ==
  \/ BeginAnalysis

SpecNormalize == InitNormalize /\ [][NextNormalize]_vars

\* the listing does not provide any of the given keys
Missing(a, b) == ~Truthy(a) /\ ~Truthy(b)

\* C11: normalizeJobData gives every field the listing does not provide its
\* documented default: companyName "Unknown Company", jobTitle "Untitled
\* Role", jobUrl and description "", jobId a generated identifier, and
\* applyUrl the jobUrl of the resulting Job, whichever key supplied it
C11_DocumentedDefaults ==
  \A i \in 1..Len(normalizedJobs) :
    LET raw == rawJobs[i]
        job == normalizedJobs[i]
    IN  /\ Missing(raw.id, raw.jobId) => job.jobId = uuidv4(i)
        /\ Missing(raw.companyName, raw.company) =>
             job.companyName = "Unknown Company"
        /\ Missing(raw.title, raw.jobTitle) => job.jobTitle = "Untitled Role"
        /\ Missing(raw.url, raw.jobUrl) => job.jobUrl = ""
        /\ Missing(raw.description, raw.text) => job.description = ""
        /\ ~Truthy(raw.applyUrl) => job.applyUrl = job.jobUrl

\* no token resolves from the caller's value or the process configuration
NoTokenResolves == ~Truthy(req.apifyToken) /\ ~Truthy(env)

\* C12: the token of the start call is the caller's value when the caller
\* supplied one, and that of the process configuration only when the caller
\* supplied none (absent or empty); when neither resolves the request fails
\* with the missing-credential error and no request is sent to the provider
C12_TokenResolution ==
  /\ sent # << >> =>
       /\ Truthy(sent[1].token)
       /\ Truthy(req.apifyToken) => sent[1].token = req.apifyToken
       /\ ~Truthy(req.apifyToken) => sent[1].token = env
  /\ NoTokenResolves =>
       /\ issued = { }
       /\ sent = << >>
       /\ pc \in { "handler", "extract", "catch", "done" }
       /\ (pc \in { "catch", "done" } /\ req.file) =>
            error \in { MissingTokenMsg, "Failed to parse CV file." }

\* an empty caller token and no configured token: the missing-credential
\* error is caught with nothing sent
C12_Witness ==
  /\ req.apifyToken = ""
  /\ env = UNDEF
  /\ pc = "catch"
  /\ error = MissingTokenMsg
  /\ issued = { }

\* number of the chunk that holds job i of the input
ChunkOf(i) == ((i - 1) \div 5) + 1

\* C13: at most 5 scoring requests are in flight at any moment, and no
\* request of a later chunk is issued before every request of the chunks
\* before it has settled, for every number of jobs (0 and 5 included)
C13_BoundedFanOut ==
  /\ InFlight <= 5
  /\ Len(results) <= 5
  /\ pc = "score_wait" =>
       \A i \in 1..Len(normalizedJobs) :
         /\ ChunkOf(i) < ci => outcome[i] # NoOutcome
         /\ ChunkOf(i) > ci => outcome[i] = NoOutcome
         /\ ChunkOf(i) = ci =>
              (outcome[i] = NoOutcome <=> results[i - 5 * (ci - 1)] = Pending)

\* the second chunk's request is in flight after the five of the first
\* chunk have settled, one of them by a failure
C13_Witness ==
  /\ pc = "score_wait"
  /\ Len(normalizedJobs) = 6
  /\ ci = 2
  /\ InFlight = 1
  /\ \E i \in 1..5 : outcome[i].kind = "throw"

\* C14: a malformed or non-conforming profiling response is fatal to the
\* analysis: the request ends with 502, no scoring request is issued and
\* no jobs list is returned
C14_ProfileFailureFatal ==
  (error \in ProfileErrors \/ cvData = "nonconforming") =>
    /\ "score" \notin IssuedKinds
    /\ analysisResult = << >>
    /\ OkResponses = { }
    /\ pc \in { "catch", "done" }
    /\ pc = "done" => Last(responses).status = 502

(***************************************************************************)
(* The request under fair scheduling, with a provider run that may stay    *)
(* RUNNING or READY for ever.  The event loop runs every continuation that *)
(* is ready, every timer fires and every HTTP request is answered, so some *)
(* step is always taken while one is possible; what the provider answers   *)
(* is its own choice.  Beyond MaxPolls polls the log of statuses and the   *)
(* count of sleeps are no longer extended.                                 *)
(***************************************************************************)
\* the 5-second timer fires and the status request is sent; sleeps are
\* counted up to MaxPolls
SleepElapsedLive ==
  /\ pc = "sleep"
  /\ delays' = IF delays < MaxPolls THEN delays + 1 ELSE delays
  /\ Issue("poll")
  /\ pc' = "poll_wait"
  /\ UNCHANGED << req, env, fileExists, sent, status, polls, rawJobs,
                  normalizedJobs, scoreVars, analysisResult, error, responses >>

\* a status request past the end of the log is answered RUNNING or READY:
\* the loop condition holds and the loop sleeps again
PollStillRunning ==
  /\ pc = "poll_wait"
  /\ Len(polls) + 1 >= MaxPolls
  /\ \E st \in NonTerminal :
       /\ KeepsPolling(st)
       /\ status' = st
  /\ pc' = "sleep"
  /\ UNCHANGED << req, env, fileExists, sent, delays, polls, rawJobs,
                  normalizedJobs, scoreVars, analysisResult, error, responses,
                  issued >>

NextLive ==
  \/ NoFile
  \/ BeginExtract
  \/ ExtractOk
  \/ ExtractFail
  \/ StartOk
  \/ StartFail
  \/ SleepElapsedLive
  \/ PollResponse
  \/ PollStillRunning
  \/ PollFail
  \/ ItemsResponse
  \/ ItemsFail
  \/ BeginAnalysis
  \/ ProfileOk
  \/ ProfileFail
  \/ ScoreResponse
  \/ ChunkDone
  \/ RespondOk
  \/ Catch

SpecLive == Init /\ [][NextLive]_vars /\ WF_vars(NextLive)

\* C15: under fair scheduling every accepted request is eventually
\* answered, whatever the provider does, a run that never leaves RUNNING
\* or READY included
C15_EventuallyAnswered == <>(responses # << >>)

\* the threshold the filter is meant to use: the caller's, 60 when the
\* caller supplied none
RequestedThreshold ==
  IF CallerThreshold = NaN THEN 60 ELSE CallerThreshold[1]

\* C16: for every caller threshold T in 0..100, T = 0 included, the jobs of
\* the response are exactly the jobs whose scoring call succeeded with
\* score >= T; 60 is used only when the caller supplied no threshold
C16_ExactlyTheJobsAtOrAboveT ==
  \A r \in OkResponses :
    RequestedThreshold \in 0..100 =>
      /\ \A i \in 1..Len(normalizedJobs) :
           (\E j \in 1..Len(r.jobs[1]) : r.jobs[1][j] = Scored(i)) <=>
             (outcome[i].kind = "ok" /\ outcome[i].score >= RequestedThreshold)
      /\ Len(r.jobs[1]) =
           Cardinality({ i \in 1..Len(normalizedJobs) :
                           outcome[i].kind = "ok"
                             /\ outcome[i].score >= RequestedThreshold })

\* position in the input of a job of the result (the jobs of the scoring
\* model have distinct ids)
InputPos(job) ==
  CHOOSE i \in 1..Len(normalizedJobs) : normalizedJobs[i].jobId = job.jobId

\* C17: jobs with equal scores are returned in their input order, whatever
\* their chunks and the order the scoring calls settled in
C17_TiesInInputOrder ==
  analysisResult # << >> =>
    \A a, b \in 1..Len(Returned) :
      (a < b /\ Returned[a].score = Returned[b].score) =>
        InputPos(Returned[a]) < InputPos(Returned[b])

\* jobs 1 and 6, of different chunks, tie below job 3
C17_Witness ==
  /\ analysisResult # << >>
  /\ Len(normalizedJobs) = 6
  /\ Len(Returned) = 3
  /\ Returned[1].jobId = "uuid-3"
  /\ Returned[2].jobId = "uuid-1"
  /\ Returned[3].jobId = "uuid-6"
  /\ Returned[2].score = Returned[3].score
  /\ Returned[1].score > Returned[2].score

====
